---- MODULE Spec2Model ----
(***************************************************************************)
(* Study bot: conversation-history store (database.py) and its two         *)
(* callers, the HTTP API (main.py) and the terminal loop with memory       *)
(* (chatbot_with_memory.py).  Two operating-system processes share one     *)
(* MongoDB collection: "api" runs main.py, "cli" runs                      *)
(* chatbot_with_memory.py.  Both import database.py and load the same      *)
(* .env, so its module-level chats_collection has the same value in both.  *)
(* The API's handlers are async functions                                  *)
(* that never await, so the API process serves one request at a time; its  *)
(* steps interleave with those of the terminal process at every call to    *)
(* the store, to the clock and to the model.                               *)
(***************************************************************************)
EXTENDS Naturals, Sequences, FiniteSets, TLC

\* ---------------------------------------------------------------- bounds
MaxTurns == 2       \* chat turns whose model call returns, over a run
MaxClock == 1       \* the clock's readings are 0..MaxClock
MaxLimit == 2       \* POST /history is asked with limit in 1..MaxLimit

\* ------------------------------------------------------------- constants
DefaultLimit == 5   \* get_chat_history(user_id, limit=5)

Proc == {"api", "cli"}
Users == {"izza", "ali"}
Texts == {"", "Q1"}                 \* user messages, the empty one included
Responses == {"", "A1"}             \* model outputs, the empty one included
QuitWords == {"quit", "exit", "bye"}
CliNames == {"izza"}                \* what the terminal user enters as name
CliInputs == {"Q1", "QUIT"}         \* what the terminal user types at the prompt

None == "None"
Coll == "chat_history"
Sentinel == "No chat history found"
NoDoc == [user_id |-> "", user_message |-> "", bot_response |-> "", timestamp |-> 0]

\* the locals of a chat turn before its first statement, for user u
NoFrame(u) ==
    [user_id |-> u, message |-> "", chat_history |-> "", context |-> "",
     bot_response |-> "", chat_data |-> NoDoc,
     model |-> "none", invoked |-> 0, recorded |-> <<>>, written |-> 0, saved |-> "none"]
NoEvent ==
    [proc |-> "", kind |-> "none", status |-> 0, body |-> "", raisedBy |-> "none",
     returned |-> "", limit |-> 0, turn |-> NoFrame("")]

VARIABLES
    chats_collection,   \* database.py's module global: None when MongoClient raised
    GOOGLE_API_KEY,     \* the API process's environment: None or a key
    serverUp,           \* whether the MongoDB server answers
    now,                \* the clock, as datetime.now() reads it
    store,              \* the collection's documents, in insertion order
    pc,                 \* [Proc -> position in the handler / in the loop]
    frame,              \* [Proc -> the locals of the turn in progress]:
                        \*   user_id, message, chat_history, context, bot_response,
                        \*   chat_data as the code names them, and what the turn did
                        \*   so far: model (the outcome of llm.invoke), invoked (its
                        \*   calls), recorded (the arguments of the save_chat calls),
                        \*   written (documents inserted), saved (save_chat's result)
    emitted,            \* what the last step gave its caller: an HTTP response or
                        \*   printed lines, with the turn's locals as they were then
    succeeded,          \* chat turns whose model call returned
    lost                \* save_chat calls that stored nothing

vars == <<chats_collection, GOOGLE_API_KEY, serverUp, now, store, pc, frame,
          emitted, succeeded, lost>>

env == <<chats_collection, GOOGLE_API_KEY, serverUp, now>>

\* --------------------------------------------------------- pure helpers
Min(a, b) == IF a <= b THEN a ELSE b

\* str.lower() on the inputs of the model
Lower(s) == IF s = "QUIT" THEN "quit" ELSE s

RECURSIVE Join(_, _)
\* sep.join(lines)
Join(sep, lines) ==
    IF Len(lines) = 0 THEN ""
    ELSE IF Len(lines) = 1 THEN lines[1]
    ELSE lines[1] \o sep \o Join(sep, Tail(lines))

\* a find with an empty filter, which would match every user's documents
FindLoose(docs, u) == DOMAIN docs

\* chats_collection.find({"user_id": user_id}): the matching documents' positions
Find(docs, u) == {i \in DOMAIN docs : docs[i].user_id = u}

\* .sort("timestamp", -1): every order of the matching documents by descending
\* timestamp; MongoDB leaves the order of equal keys unspecified
SortDesc(docs, I) ==
    {f \in [1..Cardinality(I) -> I] :
        \A i, j \in 1..Cardinality(I) :
            i < j => (f[i] # f[j] /\ docs[f[i]].timestamp >= docs[f[j]].timestamp)}

\* a limit that is off by one, which would drop the last document kept
LimitShort(f, limit) == SubSeq(f, 1, Min(limit, Len(f)) - 1)

\* .limit(limit), for a positive limit
Limit(f, limit) == SubSeq(f, 1, Min(limit, Len(f)))

\* reversed(list(history))
Reversed(f) == [i \in 1..Len(f) |-> f[Len(f) + 1 - i]]

\* the messages list: two lines per chat
Lines(docs, sel) ==
    [k \in 1..(2 * Len(sel)) |->
        IF k % 2 = 1 THEN "User: " \o docs[sel[(k + 1) \div 2]].user_message
                     ELSE "Assistant: " \o docs[sel[k \div 2]].bot_response]

\* what the query of get_chat_history can return on an answering server
QueryResults(docs, u, limit) ==
    {Join("\n", Lines(docs, Reversed(Limit(f, limit)))) : f \in SortDesc(docs, Find(docs, u))}

\* get_chat_history(user_id, limit): the possible outcomes of a call
get_chat_history(u, limit) ==
    IF chats_collection = None THEN {[raised |-> FALSE, value |-> ""]}
    ELSE IF ~serverUp THEN {[raised |-> TRUE, value |-> ""]}
    ELSE {[raised |-> FALSE, value |-> h] : h \in QueryResults(store, u, limit)}

\* test_connection(): ping; any exception (no client included) gives False
test_connection == chats_collection # None /\ serverUp

\* a context built without the test on chat_history
BuildContextAlways(history, msg) ==
    "Previous conversation:\n" \o history \o "\n\nCurrent question: " \o msg

\* the prompt's context: the history block only when chat_history is not empty
BuildContext(history, msg) ==
    IF history # ""
    THEN "Previous conversation:\n" \o history \o "\n\nCurrent question: " \o msg
    ELSE msg

\* an upsert keyed by user_id, which would overwrite the user's stored turn
InsertReplacing(docs, doc) ==
    IF \E i \in DOMAIN docs : docs[i].user_id = doc.user_id
    THEN [i \in DOMAIN docs |-> IF docs[i].user_id = doc.user_id THEN doc ELSE docs[i]]
    ELSE Append(docs, doc)

\* chats_collection.insert_one(chat_data)
InsertOne(docs, doc) == Append(docs, doc)

\* ------------------------------------------------------------------ Init
Init ==
    /\ chats_collection \in {None, Coll}
    /\ GOOGLE_API_KEY \in {None, "key"}
    /\ serverUp \in BOOLEAN
    /\ now = 0
    /\ store = <<>>
    /\ pc = [p \in Proc |-> IF p = "cli" THEN "start" ELSE "idle"]
    /\ frame = [p \in Proc |-> NoFrame("")]
    /\ emitted = NoEvent
    /\ succeeded = 0
    /\ lost = 0

\* ------------------------------------------------- the callers' outcomes
\* the handler (the loop's body) is left: its locals are gone; the terminal
\* loop keeps the name it asked for
Return(p) ==
    /\ pc' = [pc EXCEPT ![p] = "idle"]
    /\ frame' = [frame EXCEPT ![p] = NoFrame(IF p = "cli" THEN frame[p].user_id ELSE "")]

\* return ChatResponse(..., status="success")  /  print(f"Bot: {bot_response}")
Respond(p, f) ==
    /\ emitted' = [NoEvent EXCEPT !.proc = p,
                                  !.kind = IF p = "api" THEN "ChatResponse" ELSE "printed",
                                  !.status = IF p = "api" THEN 200 ELSE 0,
                                  !.body = f.bot_response,
                                  !.turn = f]
    /\ Return(p)

\* except Exception as e: HTTPException(500, str(e))  /  print(f"Error: {e}")
Except(p, f, origin) ==
    /\ emitted' = [NoEvent EXCEPT !.proc = p,
                                  !.kind = "error",
                                  !.status = IF p = "api" THEN 500 ELSE 0,
                                  !.raisedBy = origin,
                                  !.turn = f]
    /\ Return(p)

\* the handler goes on to its next statement with locals f
Goto(p, label, f) ==
    /\ pc' = [pc EXCEPT ![p] = label]
    /\ frame' = [frame EXCEPT ![p] = f]
    /\ emitted' = NoEvent

\* a run holds at most MaxTurns turns that reach the model's answer
MayBegin ==
    succeeded + Cardinality({p \in Proc : pc[p] \in {"fetch", "invoke"}}) < MaxTurns

\* ----------------------------------------------------- main.py: POST /chat
chat(u, m) ==
    /\ pc["api"] = "idle"
    /\ MayBegin
    /\ LET f == [NoFrame(u) EXCEPT !.message = m]
       IN  IF GOOGLE_API_KEY = None
           THEN Except("api", f, "GOOGLE_API_KEY")
           ELSE Goto("api", "fetch", f)
    /\ UNCHANGED <<env, store, succeeded, lost>>

\* --------------------------------- chatbot_with_memory.py: the input loop
chat_with_memory_start(u) ==
    /\ pc["cli"] = "start"
    /\ pc' = [pc EXCEPT !["cli"] = "idle"]
    /\ frame' = [frame EXCEPT !["cli"] = NoFrame(u)]
    /\ emitted' = [NoEvent EXCEPT !.proc = "cli", !.kind = "banner",
                                  !.body = IF test_connection
                                           THEN "MongoDB connected"
                                           ELSE "MongoDB not connected"]
    /\ UNCHANGED <<env, store, succeeded, lost>>

chat_with_memory_input(m) ==
    /\ pc["cli"] = "idle"
    /\ IF Lower(m) \in QuitWords
       THEN /\ pc' = [pc EXCEPT !["cli"] = "exited"]
            /\ emitted' = [NoEvent EXCEPT !.proc = "cli", !.kind = "goodbye"]
            /\ UNCHANGED frame
       ELSE /\ MayBegin
            /\ Goto("cli", "fetch", [frame["cli"] EXCEPT !.message = m])
    /\ UNCHANGED <<env, store, succeeded, lost>>

\* ------------------------------------------- the steps of a chat turn
\* chat_history = get_chat_history(user_id); context = ...
FetchHistory(p) ==
    /\ pc[p] = "fetch"
    /\ \E o \in get_chat_history(frame[p].user_id, DefaultLimit) :
         IF o.raised
         THEN Except(p, frame[p], "get_chat_history")
         ELSE Goto(p, "invoke",
                   [frame[p] EXCEPT !.chat_history = o.value,
                                    !.context = BuildContext(o.value, frame[p].message)])
    /\ UNCHANGED <<env, store, succeeded, lost>>

\* a handler that would swallow the model's exception and go on to save_chat
ModelCallFailsThenSaves(p) ==
    /\ Goto(p, "save", [frame[p] EXCEPT !.model = "raised", !.invoked = @ + 1])
    /\ UNCHANGED succeeded

\* llm.invoke(messages) raises: control passes to the except clause
ModelCallFails(p) ==
    /\ Except(p, [frame[p] EXCEPT !.model = "raised", !.invoked = @ + 1], "llm.invoke")
    /\ UNCHANGED succeeded

\* a handler that would call save_chat only when the fetched history was not empty
ModelCallReturnsSkipsSave(p, r) ==
    /\ succeeded' = succeeded + 1
    /\ LET f == [frame[p] EXCEPT !.model = "returned", !.invoked = @ + 1,
                                 !.bot_response = r]
       IN  IF f.chat_history = "" THEN Respond(p, f) ELSE Goto(p, "save", f)

\* response = llm.invoke(messages); bot_response = response.content
ModelCallReturns(p, r) ==
    /\ succeeded' = succeeded + 1
    /\ Goto(p, "save", [frame[p] EXCEPT !.model = "returned", !.invoked = @ + 1,
                                        !.bot_response = r])

Invoke(p) ==
    /\ pc[p] = "invoke"
    /\ \/ ModelCallFails(p)
       \/ \E r \in Responses : ModelCallReturns(p, r)
    /\ UNCHANGED <<env, store, lost>>

\* save_chat(user_id, message, bot_response), up to the building of chat_data
save_chat(p) ==
    /\ pc[p] = "save"
    /\ LET f == [frame[p] EXCEPT !.recorded =
                    Append(@, [user_id |-> frame[p].user_id,
                               user_message |-> frame[p].message,
                               bot_response |-> frame[p].bot_response])]
       IN  IF chats_collection = None
           THEN /\ Respond(p, [f EXCEPT !.saved = "False"])
                /\ lost' = lost + 1
           ELSE /\ Goto(p, "insert",
                        [f EXCEPT !.chat_data =
                            [user_id |-> f.user_id, user_message |-> f.message,
                             bot_response |-> f.bot_response, timestamp |-> now]])
                /\ UNCHANGED lost
    /\ UNCHANGED <<env, store, succeeded>>

\* save_chat, from insert_one to its return, and the caller's next statement
insert_one(p) ==
    /\ pc[p] = "insert"
    /\ IF serverUp
       THEN /\ store' = InsertOne(store, frame[p].chat_data)
            /\ Respond(p, [frame[p] EXCEPT !.written = @ + 1, !.saved = "True"])
            /\ UNCHANGED lost
       ELSE /\ Except(p, frame[p], "save_chat")
            /\ lost' = lost + 1
            /\ UNCHANGED store
    /\ UNCHANGED <<env, succeeded>>

\* -------------------------------------------------- main.py: POST /history
get_history(u, limit) ==
    /\ pc["api"] = "idle"
    /\ \E o \in get_chat_history(u, limit) :
         emitted' =
            IF o.raised
            THEN [NoEvent EXCEPT !.proc = "api", !.kind = "error", !.status = 500,
                                 !.raisedBy = "get_chat_history", !.limit = limit,
                                 !.turn = NoFrame(u)]
            ELSE [NoEvent EXCEPT !.proc = "api", !.kind = "HistoryResponse", !.status = 200,
                                 !.body = IF o.value # "" THEN o.value ELSE Sentinel,
                                 !.returned = o.value, !.limit = limit,
                                 !.turn = NoFrame(u)]
    /\ UNCHANGED <<env, store, pc, frame, succeeded, lost>>

\* ---------------------------------------------------- main.py: GET /health
health_check ==
    /\ pc["api"] = "idle"
    /\ emitted' = [NoEvent EXCEPT !.proc = "api", !.kind = "health", !.status = 200,
                                  !.body = IF test_connection
                                           THEN "connected" ELSE "disconnected"]
    /\ UNCHANGED <<env, store, pc, frame, succeeded, lost>>

\* ---------------------------------------------------------- environment
\* time passes; a reading of the clock that nobody took is not told apart from
\* the one before it
Tick ==
    /\ now < MaxClock
    /\ \/ \E i \in DOMAIN store : store[i].timestamp = now
       \/ \E p \in Proc : pc[p] = "insert" /\ frame[p].chat_data.timestamp = now
    /\ now' = now + 1
    /\ emitted' = NoEvent
    /\ UNCHANGED <<chats_collection, GOOGLE_API_KEY, serverUp, store, pc, frame,
                   succeeded, lost>>

\* the MongoDB server stops answering, and answers again
ServerStops ==
    /\ serverUp
    /\ serverUp' = FALSE
    /\ emitted' = NoEvent
    /\ UNCHANGED <<chats_collection, GOOGLE_API_KEY, now, store, pc, frame,
                   succeeded, lost>>

ServerStarts ==
    /\ ~serverUp
    /\ serverUp' = TRUE
    /\ emitted' = NoEvent
    /\ UNCHANGED <<chats_collection, GOOGLE_API_KEY, now, store, pc, frame,
                   succeeded, lost>>

Next ==
    \/ \E u \in Users, m \in Texts : chat(u, m)
    \/ \E u \in CliNames : chat_with_memory_start(u)
    \/ \E m \in CliInputs : chat_with_memory_input(m)
    \/ \E p \in Proc : FetchHistory(p)
    \/ \E p \in Proc : Invoke(p)
    \/ \E p \in Proc : save_chat(p)
    \/ \E p \in Proc : insert_one(p)
    \/ \E u \in Users, limit \in 1..MaxLimit : get_history(u, limit)
    \/ health_check
    \/ Tick
    \/ ServerStops
    \/ ServerStarts

Spec == Init /\ [][Next]_vars

\* ======================================================== the properties
\* the store answers: the client was built and the server is reachable
Available == chats_collection # None /\ serverUp

\* the limits asked for: those of POST /history and the default of a chat turn
Limits == (1..MaxLimit) \cup {DefaultLimit}

\* the turns stored for u, in the order they were inserted
TurnsOf(u) == SelectSeq(store, LAMBDA d : d.user_id = u)

\* the last min(limit, n) of them
MostRecent(u, limit) ==
    LET ds == TurnsOf(u)
        k == Min(limit, Len(ds))
    IN  SubSeq(ds, Len(ds) - k + 1, Len(ds))

RECURSIVE Transcript(_)
\* "User: <message>" then "Assistant: <response>" per turn, single newlines
\* between the lines, none at the end
Transcript(ds) ==
    IF ds = <<>> THEN ""
    ELSE "User: " \o ds[1].user_message \o "\nAssistant: " \o ds[1].bot_response
         \o (IF Len(ds) > 1 THEN "\n" \o Transcript(Tail(ds)) ELSE "")

\* the arguments the turn with locals f owes save_chat
Owed(f) == [user_id |-> f.user_id, user_message |-> f.message, bot_response |-> f.bot_response]

Answered == emitted.kind \in {"ChatResponse", "printed"}
InFlight == Cardinality({p \in Proc : pc[p] \in {"save", "insert"}})

\* C1: whenever the store is unavailable (no client since process start, or the
\* server unreachable at the call), save_chat returns False, get_chat_history
\* returns "", and neither raises to its caller.
C1_UnavailableStoreDegrades ==
    [][~Available =>
        /\ \A p \in Proc :
            /\ (pc[p] = "fetch" /\ pc'[p] # "fetch") =>
                    (pc'[p] = "invoke" /\ frame'[p].chat_history = "")
            /\ (pc[p] \in {"save", "insert"} /\ pc'[p] = "idle") =>
                    (emitted'.raisedBy = "none" /\ emitted'.turn.saved = "False")
        /\ (emitted' # emitted /\ emitted'.limit > 0) =>
                (emitted'.kind = "HistoryResponse" /\ emitted'.returned = "")]_vars

\* C2: POST /history answers with exactly the min(limit, n) most recently
\* recorded turns of the user, oldest first, in the transcript format, equal
\* timestamps included.
C2_HistoryIsMostRecentTurns ==
    (emitted.kind = "HistoryResponse" /\ chats_collection # None) =>
        emitted.returned = Transcript(MostRecent(emitted.turn.user_id, emitted.limit))

\* C3: a turn whose model call raised is over at once: nothing was handed to
\* save_chat, nothing was written, the caller got an error (HTTP 500 from the
\* API), and llm.invoke was called once.
C3_ModelFailureAbortsTurn ==
    /\ \A p \in Proc : frame[p].model # "raised" /\ frame[p].invoked <= 1
    /\ emitted.turn.model = "raised" =>
        /\ emitted.kind = "error"
        /\ emitted.raisedBy = "llm.invoke"
        /\ emitted.proc = "api" => emitted.status = 500
        /\ emitted.turn.invoked = 1
        /\ emitted.turn.recorded = <<>>
        /\ emitted.turn.written = 0
C3_Witness ==
    /\ emitted.turn.model = "raised"
    /\ emitted.proc = "api"
    /\ Available

\* C4: a turn whose model call returned answers its caller with the
\* bot_response (status success), also when the turn could not be persisted.
C4_ResponseSurvivesPersistFailure ==
    emitted.turn.model = "returned" =>
        /\ Answered
        /\ emitted.body = emitted.turn.bot_response
        /\ emitted.proc = "api" => emitted.status = 200

\* C5: the context sent to the model is the raw message when the history
\* fetched at the start of the turn, get_chat_history(user_id) with limit 5, is
\* empty, and "Previous conversation:\n" + history + "\n\nCurrent question: " +
\* message otherwise.
C5_ContextAssembly ==
    [][\A p \in Proc :
        (pc[p] = "fetch" /\ pc'[p] = "invoke") =>
            LET h == frame'[p].chat_history
                m == frame[p].message
            IN  /\ [raised |-> FALSE, value |-> h]
                        \in get_chat_history(frame[p].user_id, DefaultLimit)
                /\ frame'[p].message = m
                /\ frame'[p].context =
                        IF h = "" THEN m
                        ELSE "Previous conversation:\n" \o h
                             \o "\n\nCurrent question: " \o m]_vars
C5_Witness ==
    \E p \in Proc :
        /\ pc[p] = "invoke"
        /\ frame[p].chat_history = "User: Q1\nAssistant: A1"
        /\ frame[p].context =
              "Previous conversation:\nUser: Q1\nAssistant: A1\n\nCurrent question: "

\* C6 as stated: with an available store the number of stored turns always
\* equals the number of turns whose model call succeeded.
C6_StoredEqualsSucceeded ==
    (Available /\ lost = 0) => Len(store) = succeeded

\* C6 as amended: save_chat is called once per turn whose model call returned,
\* after the response and with the turn's (user_id, message, bot_response),
\* whatever the fetched history; the stored turns number the turns whose model
\* call returned, less those between the response and the insert and less
\* those whose save_chat stored nothing.
C6_RecordOncePerSucceededTurn ==
    /\ Len(store) + InFlight + lost = succeeded
    /\ \A p \in Proc :
        /\ pc[p] \notin {"save", "insert"} =>
                (frame[p].recorded = <<>> /\ frame[p].model # "returned")
        /\ pc[p] = "save" => (frame[p].recorded = <<>> /\ frame[p].model = "returned")
        /\ pc[p] = "insert" =>
                /\ frame[p].model = "returned"
                /\ frame[p].recorded = <<Owed(frame[p])>>
                /\ frame[p].chat_data.user_id = frame[p].user_id
                /\ frame[p].chat_data.user_message = frame[p].message
                /\ frame[p].chat_data.bot_response = frame[p].bot_response
        /\ frame[p].written = 0
    /\ emitted.turn.model = "returned" => emitted.turn.recorded = <<Owed(emitted.turn)>>
    /\ emitted.turn.model # "returned" => emitted.turn.recorded = <<>>
    /\ Answered =>
        /\ emitted.turn.model = "returned"
        /\ emitted.turn.saved = "True" =>
                /\ emitted.turn.written = 1
                /\ store # <<>>
                /\ store[Len(store)] = emitted.turn.chat_data
        /\ emitted.turn.saved # "True" => emitted.turn.written = 0
C6_Witness ==
    /\ Answered
    /\ emitted.turn.saved = "True"
    /\ emitted.turn.chat_history = ""
    /\ Len(store) = 1
    /\ \E p \in Proc : pc[p] = "insert"

\* C7: the store is append-only: no step removes or changes a stored turn.
C7_AppendOnly ==
    [][/\ Len(store') >= Len(store)
       /\ \A i \in DOMAIN store : store'[i] = store[i]]_vars
C7_Witness ==
    /\ Len(store) = 2
    /\ store[1].user_id = store[2].user_id
    /\ emitted.kind = "HistoryResponse"

\* C8: a turn inserted later carries a timestamp greater than or equal to that
\* of every turn inserted before it.
C8_TimestampsFollowInsertion ==
    \A i, j \in DOMAIN store : i < j => store[i].timestamp <= store[j].timestamp

\* C9: what get_chat_history returns for v is made of v's own turns alone,
\* nothing recorded under another user is in it, and a turn saved for another
\* user leaves what it can return for v, at every limit, as it was.
C9_UserLogsIndependent ==
    /\ []((emitted.kind = "HistoryResponse" /\ chats_collection # None) =>
            emitted.returned \in
                QueryResults(TurnsOf(emitted.turn.user_id), emitted.turn.user_id, emitted.limit))
    /\ [][\A p \in Proc :
            (pc[p] = "fetch" /\ pc'[p] = "invoke" /\ Available) =>
                frame'[p].chat_history \in
                    QueryResults(TurnsOf(frame[p].user_id), frame[p].user_id, DefaultLimit)]_vars
    /\ [][Len(store') > Len(store) =>
            \A v \in Users \ {store'[Len(store')].user_id}, limit \in Limits :
                QueryResults(store', v, limit) = QueryResults(store, v, limit)]_vars
C9_Witness ==
    /\ Len(store) = 2
    /\ store[1].user_id # store[2].user_id
    /\ Answered
    /\ emitted.turn.saved = "True"

\* C10: with the store available and a positive limit, get_chat_history gives
\* "" exactly for a user without stored turns, empty texts or not; POST /history
\* answers the sentinel exactly then, and the prompt carries previous
\* conversation exactly when the user has stored turns.
C10_EmptyIffNoTurns ==
    /\ []((emitted.kind = "HistoryResponse" /\ chats_collection # None) =>
            /\ emitted.returned = "" <=> TurnsOf(emitted.turn.user_id) = <<>>
            /\ emitted.body = Sentinel <=> TurnsOf(emitted.turn.user_id) = <<>>
            /\ emitted.body # Sentinel => emitted.body = emitted.returned)
    /\ [][\A p \in Proc :
            (pc[p] = "fetch" /\ Available) =>
                /\ pc'[p] \in {"fetch", "invoke"}
                /\ pc'[p] = "invoke" =>
                    /\ frame'[p].chat_history = "" <=> TurnsOf(frame[p].user_id) = <<>>
                    /\ frame'[p].context = frame[p].message
                            <=> TurnsOf(frame[p].user_id) = <<>>]_vars
C10_Witness ==
    /\ emitted.kind = "HistoryResponse"
    /\ emitted.returned = "User: \nAssistant: "
    /\ emitted.body = emitted.returned

====
